---- MODULE Spec2Model ----
(***************************************************************************)
(* A model of the classroom backend's route handlers (users, subjects,    *)
(* classes) over the relational store they query.                          *)
(*                                                                         *)
(* Text values are sequences of one-character strings, so that ILIKE,      *)
(* Number() and toString(36) can be computed character by character.       *)
(* JavaScript numbers are records [t, n, d]: t = "num" is the rational     *)
(* n/d (d > 0), t = "nan" is NaN, t = "inf" / "ninf" are +-Infinity.       *)
(***************************************************************************)
EXTENDS Integers, Sequences, FiniteSets, TLC

(***************************************************************************)
(* Bounds of the model.                                                    *)
(***************************************************************************)
\* how many rows the POST routes insert in a run
MaxInserts == 1

(***************************************************************************)
(* Text helpers.                                                           *)
(***************************************************************************)
Range(s) == {s[i] : i \in DOMAIN s}

Min(a, b) == IF a <= b THEN a ELSE b

UpperToLower ==
    [A |-> "a", B |-> "b", C |-> "c", D |-> "d", E |-> "e", F |-> "f", G |-> "g",
     H |-> "h", I |-> "i", J |-> "j", K |-> "k", L |-> "l", M |-> "m", N |-> "n",
     O |-> "o", P |-> "p", Q |-> "q", R |-> "r", S |-> "s", T |-> "t", U |-> "u",
     V |-> "v", W |-> "w", X |-> "x", Y |-> "y", Z |-> "z"]

Lower(c) == IF c \in DOMAIN UpperToLower THEN UpperToLower[c] ELSE c

\* SQL LIKE on lower-cased operands: % matches any run, _ any one character
RECURSIVE LikeMatch(_, _)
LikeMatch(t, p) ==
    IF p = <<>> THEN t = <<>>
    ELSE IF Head(p) = "%"
         THEN LikeMatch(t, Tail(p)) \/ (t # <<>> /\ LikeMatch(Tail(t), p))
         ELSE /\ t # <<>>
              /\ (Head(p) = "_" \/ Lower(Head(p)) = Lower(Head(t)))
              /\ LikeMatch(Tail(t), Tail(p))

\* ilike(column, `%${term}%`)
ilike(column, term) == LikeMatch(column, <<"%">> \o term \o <<"%">>)

(***************************************************************************)
(* JavaScript numbers.                                                     *)
(***************************************************************************)
Num(n, d) == [t |-> "num", n |-> n, d |-> d]
NaN == [t |-> "nan", n |-> 0, d |-> 1]
Infinity == [t |-> "inf", n |-> 0, d |-> 1]
NegInfinity == [t |-> "ninf", n |-> 0, d |-> 1]

IsInteger(x) == x.t = "num" /\ x.n % x.d = 0
IntValue(x) == x.n \div x.d

Digits == <<"0", "1", "2", "3", "4", "5", "6", "7", "8", "9">>
IsDigit(c) == \E i \in DOMAIN Digits : Digits[i] = c
DigitValue(c) == (CHOOSE i \in DOMAIN Digits : Digits[i] = c) - 1

RECURSIVE Pow10(_)
Pow10(k) == IF k = 0 THEN 1 ELSE 10 * Pow10(k - 1)

\* the value of a run of decimal digits (0 for the empty run)
RECURSIVE DigitsValue(_)
DigitsValue(s) ==
    IF s = <<>> THEN 0
    ELSE 10 * DigitsValue(SubSeq(s, 1, Len(s) - 1)) + DigitValue(s[Len(s)])

AllDigits(s) == \A i \in DOMAIN s : IsDigit(s[i])

InfinityText == <<"I", "n", "f", "i", "n", "i", "t", "y">>

\* StringToNumber of an unsigned literal: digits with an optional fraction
UnsignedToNumber(s) ==
    IF s = InfinityText THEN Infinity
    ELSE LET dots == {i \in DOMAIN s : s[i] = "."}
             dot == IF dots = {} THEN Len(s) + 1 ELSE CHOOSE i \in dots : \A j \in dots : i <= j
             ip == SubSeq(s, 1, dot - 1)
             fp == SubSeq(s, dot + 1, Len(s))
         IN  IF AllDigits(ip) /\ AllDigits(fp) /\ Len(ip) + Len(fp) > 0
             THEN Num(DigitsValue(ip) * Pow10(Len(fp)) + DigitsValue(fp), Pow10(Len(fp)))
             ELSE NaN

Negate(x) ==
    CASE x.t = "num" -> Num(0 - x.n, x.d)
      [] x.t = "inf" -> NegInfinity
      [] x.t = "ninf" -> Infinity
      [] OTHER -> NaN

\* Number(text) and unary plus on a string: "" is 0, a signed decimal literal or
\* Infinity is its value, any other text is NaN
ToNumber(s) ==
    IF s = <<>> THEN Num(0, 1)
    ELSE IF Head(s) = "-" THEN Negate(UnsignedToNumber(Tail(s)))
    ELSE IF Head(s) = "+" THEN UnsignedToNumber(Tail(s))
    ELSE UnsignedToNumber(s)

\* a test that rejects NaN only
IsNotNaN(x) == x.t # "nan"

\* Number.isFinite
IsFinite(x) == x.t = "num"

\* Math.max(1, x)
MathMax1(x) ==
    CASE x.t = "nan" -> NaN
      [] x.t = "inf" -> Infinity
      [] x.t = "ninf" -> Num(1, 1)
      [] OTHER -> IF x.n >= x.d THEN x ELSE Num(1, 1)

\* an offset of a * b, one page too far
Times(a, b) ==
    CASE a.t = "nan" \/ b.t = "nan" -> NaN
      [] a.t = "inf" \/ b.t = "inf" -> Infinity
      [] OTHER -> Num(a.n * b.n, a.d * b.d)

\* (a - 1) * b for a >= 1 and b >= 1, as IEEE arithmetic gives it
MinusOneTimes(a, b) ==
    CASE a.t = "nan" \/ b.t = "nan" -> NaN
      [] a.t = "inf" -> Infinity
      [] b.t = "inf" -> IF a.n = a.d THEN NaN ELSE Infinity
      [] OTHER -> Num((a.n - a.d) * b.n, a.d * b.d)

\* Math.floor in place of Math.ceil
FloorDiv(count, b) ==
    CASE b.t = "nan" -> NaN
      [] b.t = "inf" -> Num(0, 1)
      [] OTHER -> Num((count * b.d) \div b.n, 1)

\* Math.ceil(count / b) for an integer count >= 0 and b >= 1
CeilDiv(count, b) ==
    CASE b.t = "nan" -> NaN
      [] b.t = "inf" -> Num(0, 1)
      [] OTHER -> Num(0 - ((0 - count * b.d) \div b.n), 1)

(***************************************************************************)
(* The store.  The routes insert only subjects and classes; users and      *)
(* enrollments are read, never written; a department is deleted by a       *)
(* statement on the store, under the constraints of the schema.            *)
(***************************************************************************)
VARIABLES
    departments,   \* table departments
    subjects,      \* table subjects
    classes,       \* table classes
    enrollments,   \* table enrollments (student, class)
    subjectSeq,    \* identity generator of subjects.id
    classSeq,      \* identity generator of classes.id
    now,           \* the store's clock, read by defaultNow()
    pc,            \* where the GET request in flight stands ("idle": none)
    req,           \* the GET request in flight
    loc,           \* its handler's locals
    resp           \* the response the last step sent (or the outcome of the last
                   \* statement on the store), if there was one

vars == <<departments, subjects, classes, enrollments, subjectSeq, classSeq, now, pc, req, loc, resp>>

store == <<departments, subjects, classes, enrollments, subjectSeq, classSeq, now>>

Null == [null |-> TRUE]

Users ==
    { [id |-> "t1", name |-> <<"T", "o", "m">>, email |-> <<"t", "@", "x">>, role |-> "teacher", createdAt |-> 1],
      [id |-> "t2", name |-> <<"A", "n", "a">>, email |-> <<"a", "@", "x">>, role |-> "teacher", createdAt |-> 2],
      [id |-> "s1", name |-> <<"S", "a", "m">>, email |-> <<"s", "@", "y">>, role |-> "student", createdAt |-> 3],
      [id |-> "s2", name |-> <<"T", "i", "m">>, email |-> <<"m", "@", "y">>, role |-> "student", createdAt |-> 3],
      [id |-> "a1", name |-> <<"E", "v", "e">>, email |-> <<"e", "@", "x">>, role |-> "admin", createdAt |-> 5] }

Departments ==
    { [id |-> 1, code |-> <<"S", "C">>, name |-> <<"S", "c", "i">>, createdAt |-> 1],
      [id |-> 2, code |-> <<"A", "R">>, name |-> <<"A", "r", "t">>, createdAt |-> 2],
      [id |-> 3, code |-> <<"L", "W">>, name |-> <<"L", "a", "w">>, createdAt |-> 3] }

Subject(id, departmentId, code, name, createdAt) ==
    [id |-> id, departmentId |-> departmentId, code |-> code, name |-> name,
     createdAt |-> createdAt]

Class(id, subjectId, teacherId, inviteCode, name, createdAt) ==
    [id |-> id, subjectId |-> subjectId, teacherId |-> teacherId,
     inviteCode |-> inviteCode, name |-> name, schedules |-> <<>>,
     createdAt |-> createdAt]

Enrollment(studentId, classId) == [studentId |-> studentId, classId |-> classId]

\* department Sci: three subjects of two classes each, all taught by t1;
\* department Art: one subject with one class, whose teacher reference is the
\* user s1 (the reference is to a user, whatever the role); Law: no subject
InitSubjects ==
    { Subject(1, 1, <<"m", "1">>, <<"M", "a">>, 1),
      Subject(2, 1, <<"p", "1">>, <<"P", "h">>, 2),
      Subject(3, 1, <<"c", "1">>, <<"C", "h">>, 2),
      Subject(4, 2, <<"a", "1">>, <<"A", "r">>, 4) }

InitClasses ==
    { Class(1, 1, "t1", <<"k", "1", "a", "b", "c", "d", "e">>, <<"A", "1">>, 1),
      Class(2, 1, "t1", <<"k", "2", "a", "b", "c", "d", "e">>, <<"A", "2">>, 2),
      Class(3, 2, "t1", <<"k", "3", "a", "b", "c", "d", "e">>, <<"B", "1">>, 3),
      Class(4, 2, "t1", <<"k", "4", "a", "b", "c", "d", "e">>, <<"B", "2">>, 4),
      Class(5, 3, "t1", <<"k", "5", "a", "b", "c", "d", "e">>, <<"C", "1">>, 5),
      Class(6, 3, "t1", <<"k", "6", "a", "b", "c", "d", "e">>, <<"C", "2">>, 6),
      Class(7, 4, "s1", <<"k", "7", "a", "b", "c", "d", "e">>, <<"D", "1">>, 7) }

\* the enrollment tables a run may start from: s1 is enrolled in two classes of
\* subject 1 and one of subject 2, s2 in classes of subjects 1, 3 and 4, and the
\* teacher t1 in class 7
InitEnrollments ==
    { { Enrollment("s1", 1), Enrollment("s1", 2), Enrollment("s1", 3), Enrollment("s2", 1),
        Enrollment("s2", 5), Enrollment("s2", 6), Enrollment("s2", 7), Enrollment("t1", 7) } }

(***************************************************************************)
(* Query building blocks.                                                  *)
(***************************************************************************)
OrNull(S) == IF S = {} THEN {Null} ELSE S

\* rows.leftJoin(table, eq(table.column, ref.refColumn)), the joined row under
\* name; a null never equals anything
LeftJoin(rows, name, table, column, ref, refColumn) ==
    UNION { { (name :> t) @@ r :
                t \in OrNull({t \in table : r[ref] # Null /\ t[column] = r[ref][refColumn]}) } :
            r \in rows }

From(name, table) == { (name :> t) : t \in table }

\* eq(column, n) for an integer column and a JavaScript number
EqNumber(column, n) == IsInteger(n) /\ column = IntValue(n)

\* a result row: the listed entity's id and creation time, and its selected columns
Row(id, createdAt, columns) == [id |-> id, createdAt |-> createdAt, columns |-> columns]

\* ORDER BY created_at DESC: every order the store may return the rows in
\* (rows of equal creation time come in any order)
RECURSIVE Orderings(_)
Orderings(S) ==
    IF S = {} THEN {<<>>}
    ELSE LET top == {x \in S : \A y \in S : y.createdAt <= x.createdAt}
         IN  UNION { { <<x>> \o rest : rest \in Orderings(S \ {x}) } : x \in top }

\* LIMIT limit OFFSET offset on an ordered result
Window(ord, limit, offset) == SubSeq(ord, offset + 1, Min(Len(ord), offset + limit))

Ids(ord) == [i \in DOMAIN ord |-> ord[i].id]

\* a query value: absent (undefined) or a string
Undefined == [def |-> FALSE, s |-> <<>>]
Str(s) == [def |-> TRUE, s |-> s]

\* a test that lets an absent role pass
AbsentOrValidRole(role) == ~role.def \/ role.s = "teacher" \/ role.s = "student"

\* role !== "teacher" && role !== "student" is false
ValidRole(role) == role.def /\ (role.s = "teacher" \/ role.s = "student")

\* JavaScript truthiness of a query value: undefined and "" are falsy
Truthy(v) == v.def /\ v.s # <<>>

\* the role query value is kept as one word, not as characters
NoRole == [def |-> FALSE, s |-> ""]
RoleTruthy(v) == v.def /\ v.s # ""

\* const { page = 1, limit = 10 } = req.query; Math.max(1, +page), Math.max(1, +limit)
Coerce(v, default) == MathMax1(IF v.def THEN ToNumber(v.s) ELSE Num(default, 1))

(***************************************************************************)
(* The queries of routes/users.ts.                                         *)
(***************************************************************************)
\* GET /users: the combined filter
UsersWhere(r, u) ==
    /\ Truthy(r.search) => (ilike(u.name, r.search.s) \/ ilike(u.email, r.search.s))
    /\ RoleTruthy(r.role) => u.role = r.role.s

UsersCount(r) == Cardinality({j \in From("u", Users) : UsersWhere(r, j.u)})

UsersRows(r) ==
    {Row(j.u.id, j.u.createdAt, j.u) : j \in {j \in From("u", Users) : UsersWhere(r, j.u)}}

\* select from user where id = userId
UserLookup(userId) == {u \in Users : u.id = userId}

\* departments -> subjects -> classes (-> enrollments)
DepartmentsJoin(role) ==
    LET ds == LeftJoin(From("d", departments), "s", subjects, "departmentId", "d", "id")
        dsc == LeftJoin(ds, "c", classes, "subjectId", "s", "id")
    IN  IF role = "teacher" THEN dsc
        ELSE LeftJoin(dsc, "e", enrollments, "classId", "c", "id")

\* a path condition that takes the taught classes whatever the role
PathWhereTaught(role, userId, j) == j.c # Null /\ j.c.teacherId = userId

\* where classes.teacherId = userId / where enrollments.studentId = userId
PathWhere(role, userId, j) ==
    IF role = "teacher" THEN j.c # Null /\ j.c.teacherId = userId
    ELSE j.e # Null /\ j.e.studentId = userId

\* a count of the joined rows, count(*), in place of the distinct departments
UserDepartmentsCountRows(role, userId) ==
    Cardinality({j \in DepartmentsJoin(role) : PathWhere(role, userId, j)})

\* count(distinct departments.id)
UserDepartmentsCount(role, userId) ==
    Cardinality({j.d.id : j \in {j \in DepartmentsJoin(role) : PathWhere(role, userId, j)}})

\* group by every department column
UserDepartmentsRows(role, userId) ==
    {Row(g.id, g.createdAt, g) :
        g \in {j.d : j \in {j \in DepartmentsJoin(role) : PathWhere(role, userId, j)}}}

\* subjects -> classes (-> enrollments), the count query's chain
SubjectsJoin(role) ==
    LET sc == LeftJoin(From("s", subjects), "c", classes, "subjectId", "s", "id")
    IN  IF role = "teacher" THEN sc
        ELSE LeftJoin(sc, "e", enrollments, "classId", "c", "id")

\* subjects -> departments -> classes (-> enrollments), the data query's chain
SubjectsDepartmentsJoin(role) ==
    LET sd == LeftJoin(From("s", subjects), "d", departments, "id", "s", "departmentId")
        sdc == LeftJoin(sd, "c", classes, "subjectId", "s", "id")
    IN  IF role = "teacher" THEN sdc
        ELSE LeftJoin(sdc, "e", enrollments, "classId", "c", "id")

\* count(distinct subjects.id)
UserSubjectsCount(role, userId) ==
    Cardinality({j.s.id : j \in {j \in SubjectsJoin(role) : PathWhere(role, userId, j)}})

\* group by every subject and department column
UserSubjectsRows(role, userId) ==
    {Row(g.s.id, g.s.createdAt, g) :
        g \in {[s |-> j.s, d |-> j.d] :
                 j \in {j \in SubjectsDepartmentsJoin(role) : PathWhere(role, userId, j)}}}

(***************************************************************************)
(* The queries of the subjects router.                                     *)
(***************************************************************************)
\* subjects -> departments
SubjectsListJoin ==
    LeftJoin(From("s", subjects), "d", departments, "id", "s", "departmentId")

\* GET /subjects: the combined filter
SubjectsWhere(r, j) ==
    /\ Truthy(r.search) => (ilike(j.s.name, r.search.s) \/ ilike(j.s.code, r.search.s))
    /\ Truthy(r.department) => (j.d # Null /\ ilike(j.d.name, r.department.s))

\* a count that leaves the department filter out of its predicate
SubjectsCountUnfiltered(r) ==
    Cardinality({j \in SubjectsListJoin :
                   Truthy(r.search) => (ilike(j.s.name, r.search.s) \/ ilike(j.s.code, r.search.s))})

\* count(*) over the join
SubjectsCount(r) == Cardinality({j \in SubjectsListJoin : SubjectsWhere(r, j)})

SubjectsRows(r) ==
    {Row(j.s.id, j.s.createdAt, j) : j \in {j \in SubjectsListJoin : SubjectsWhere(r, j)}}

\* GET /subjects/:id: the subject with its department
SubjectLookup(subjectId) == {j \in SubjectsListJoin : EqNumber(j.s.id, subjectId)}

\* a count of all classes, whatever their subject
SubjectClassesCountAll(subjectId) == Cardinality(From("c", classes))

\* count(*) from classes where subjectId
SubjectClassesCount(subjectId) ==
    Cardinality({j \in From("c", classes) : EqNumber(j.c.subjectId, subjectId)})

\* classes -> user, where subjectId
SubjectClassesRows(subjectId) ==
    {Row(j.c.id, j.c.createdAt, j) :
        j \in {j \in LeftJoin(From("c", classes), "u", Users, "id", "c", "teacherId") :
                 EqNumber(j.c.subjectId, subjectId)}}

\* user -> classes (teacher) / user -> enrollments -> classes (student)
SubjectUsersJoin(role) ==
    IF role = "teacher"
    THEN LeftJoin(From("u", Users), "c", classes, "teacherId", "u", "id")
    ELSE LeftJoin(LeftJoin(From("u", Users), "e", enrollments, "studentId", "u", "id"),
                  "c", classes, "id", "e", "classId")

\* and(eq(user.role, role), eq(classes.subjectId, subjectId))
SubjectUsersWhere(role, subjectId, j) ==
    j.u.role = role /\ j.c # Null /\ EqNumber(j.c.subjectId, subjectId)

\* count(distinct user.id)
SubjectUsersCount(role, subjectId) ==
    Cardinality({j.u.id : j \in {j \in SubjectUsersJoin(role) :
                                   SubjectUsersWhere(role, subjectId, j)}})

\* group by every selected user column
SubjectUsersRows(role, subjectId) ==
    {Row(g.id, g.createdAt, g) :
        g \in {j.u : j \in {j \in SubjectUsersJoin(role) :
                              SubjectUsersWhere(role, subjectId, j)}}}

(***************************************************************************)
(* The queries of routes/classes.ts.                                       *)
(***************************************************************************)
\* classes -> subjects -> user
ClassesListJoin ==
    LeftJoin(LeftJoin(From("c", classes), "s", subjects, "id", "c", "subjectId"),
             "u", Users, "id", "c", "teacherId")

\* GET /classes: the combined filter
ClassesWhere(r, j) ==
    /\ Truthy(r.search) => (ilike(j.c.name, r.search.s) \/ ilike(j.c.inviteCode, r.search.s))
    /\ Truthy(r.subject) => (j.s # Null /\ ilike(j.s.name, r.subject.s))
    /\ Truthy(r.teacher) => (j.u # Null /\ ilike(j.u.name, r.teacher.s))

ClassesCount(r) == Cardinality({j \in ClassesListJoin : ClassesWhere(r, j)})

ClassesRows(r) ==
    {Row(j.c.id, j.c.createdAt, j) : j \in {j \in ClassesListJoin : ClassesWhere(r, j)}}

\* GET /classes/:id: classes -> subjects -> departments -> user, where id
ClassLookup(classId) ==
    {j \in LeftJoin(LeftJoin(LeftJoin(From("c", classes), "s", subjects, "id", "c", "subjectId"),
                             "d", departments, "id", "s", "departmentId"),
                    "u", Users, "id", "c", "teacherId") :
        EqNumber(j.c.id, classId)}

\* user -> classes (teacher) / user -> enrollments (student)
ClassUsersJoin(role) ==
    IF role = "teacher"
    THEN LeftJoin(From("u", Users), "c", classes, "teacherId", "u", "id")
    ELSE LeftJoin(From("u", Users), "e", enrollments, "studentId", "u", "id")

\* a where clause without the test of the user's role
ClassUsersWhereAnyRole(role, classId, j) ==
    IF role = "teacher" THEN j.c # Null /\ EqNumber(j.c.id, classId)
    ELSE j.e # Null /\ EqNumber(j.e.classId, classId)

\* and(eq(user.role, role), eq(classes.id, classId) / eq(enrollments.classId, classId))
ClassUsersWhere(role, classId, j) ==
    /\ j.u.role = role
    /\ IF role = "teacher" THEN j.c # Null /\ EqNumber(j.c.id, classId)
       ELSE j.e # Null /\ EqNumber(j.e.classId, classId)

\* count(distinct user.id)
ClassUsersCount(role, classId) ==
    Cardinality({j.u.id : j \in {j \in ClassUsersJoin(role) :
                                   ClassUsersWhere(role, classId, j)}})

\* group by every selected user column
ClassUsersRows(role, classId) ==
    {Row(g.id, g.createdAt, g) :
        g \in {j.u : j \in {j \in ClassUsersJoin(role) :
                              ClassUsersWhere(role, classId, j)}}}

\* Math.random().toString(36).substring(2, 9), for a random number in [0, 1)
\* given by the digits of its base-36 expansion
Base36 ==
    <<"0", "1", "2", "3", "4", "5", "6", "7", "8", "9", "a", "b", "c", "d", "e", "f",
      "g", "h", "i", "j", "k", "l", "m", "n", "o", "p", "q", "r", "s", "t", "u", "v",
      "w", "x", "y", "z">>

\* Number.prototype.toString(36) of a number in [0, 1): "0" or "0." and the digits
ToString36(fraction) ==
    IF fraction = <<>> THEN <<"0">>
    ELSE <<"0", ".">> \o [i \in DOMAIN fraction |-> Base36[fraction[i] + 1]]

\* String.prototype.substring(start, end)
Substring(s, start, end) == SubSeq(s, Min(start, Len(s)) + 1, Min(end, Len(s)))

InviteCode(random) == Substring(ToString36(random), 2, 9)

(***************************************************************************)
(* Requests and responses.                                                 *)
(***************************************************************************)
Req(route, id, search, role, department, subject, teacher, pl) ==
    [route |-> route, id |-> id, search |-> search, role |-> role,
     department |-> department, subject |-> subject, teacher |-> teacher,
     page |-> pl.page, limit |-> pl.limit]

NoReq == [route |-> "none"]

\* the page and limit query values the requests are drawn from
PageLimits ==
    { [page |-> Undefined, limit |-> Undefined],
      [page |-> Str(<<"1">>), limit |-> Str(<<"2">>)],
      [page |-> Str(<<"1">>), limit |-> Str(<<"3">>)],
      [page |-> Str(<<"2">>), limit |-> Str(<<"2">>)],
      [page |-> Str(<<"3">>), limit |-> Str(<<"1">>)],
      [page |-> Str(<<"0">>), limit |-> Str(<<"-", "1">>)],
      [page |-> Str(<<"2", ".", "5">>), limit |-> Str(<<"2">>)],
      [page |-> Str(<<"1">>), limit |-> Str(<<"2", ".", "5">>)],
      [page |-> Str(<<"a", "b", "c">>), limit |-> Str(<<"2">>)],
      [page |-> Str(<<"1">>), limit |-> Str(<<"a", "b", "c">>)] }

UserIdParams == {"t1", "t2", "s1", "a1", "zz"}
\* path ids of the detail routes
SubjectIdParams == {<<"1">>, <<"4">>, <<"9", "9">>, <<"1", ".", "5">>, <<"a", "b", "c">>, InfinityText}
ClassIdParams == {<<"1">>, <<"7">>, <<"9", "9">>, <<"1", ".", "5">>, <<"a", "b", "c">>, InfinityText}
\* path ids of the nested listings
SubjectRootParams == {<<"1">>, <<"4">>, <<"9", "9">>, <<"a", "b", "c">>}
ClassRootParams == {<<"1">>, <<"7">>, <<"9", "9">>, <<"a", "b", "c">>}
RoleParams == {NoRole, Str("teacher"), Str("student"), Str("Teacher")}

\* const currentPage, limitPerPage, offset
Locals(r, role, totalCount, queries) ==
    [currentPage |-> Coerce(r.page, 1),
     limitPerPage |-> Coerce(r.limit, 10),
     offset |-> MinusOneTimes(Coerce(r.page, 1), Coerce(r.limit, 10)),
     role |-> role, totalCount |-> totalCount, queries |-> queries,
     dirty |-> FALSE]

NoLoc == [queries |-> 0]

Reply(r, status, kind, data, queries) ==
    [req |-> r, status |-> status, kind |-> kind, data |-> data, error |-> "",
     page |-> Num(0, 1), limit |-> Num(0, 1), total |-> 0, totalPages |-> Num(0, 1),
     queries |-> queries, dirty |-> FALSE, threw |-> ""]

NoResp == Reply(NoReq, 0, "none", <<>>, 0)

\* res.status(400 | 404).json({ error })
ErrorReply(r, status, error, queries) ==
    [Reply(r, status, "error", <<>>, queries) EXCEPT !.error = error]

\* the catch blocks: res.status(500).json({ error })
FailureMessage ==
    [r \in {"GET /users", "GET /users/:id", "GET /users/:id/departments",
            "GET /users/:id/subjects", "GET /subjects", "POST /subjects",
            "GET /subjects/:id", "GET /subjects/:id/classes", "GET /subjects/:id/users",
            "GET /classes", "POST /classes", "GET /classes/:id", "GET /classes/:id/users"} |->
        CASE r = "GET /users" -> "Failed to fetch users"
          [] r = "GET /users/:id" -> "Failed to fetch user"
          [] r = "GET /users/:id/departments" -> "Failed to fetch user departments"
          [] r = "GET /users/:id/subjects" -> "Failed to fetch user subjects"
          [] r = "GET /subjects" -> "Failed to fetch subjects"
          [] r = "POST /subjects" -> "Failed to create subject"
          [] r = "GET /subjects/:id" -> "Failed to fetch subject details"
          [] r = "GET /subjects/:id/classes" -> "Failed to fetch subject classes"
          [] r = "GET /subjects/:id/users" -> "Failed to fetch subject users"
          [] r = "GET /classes" -> "Failed to fetch classes"
          [] r = "POST /classes" -> "Failed to create class"
          [] r = "GET /classes/:id" -> "Failed to fetch class details"
          [] OTHER -> "Failed to fetch class users"]

\* a degraded mode: an empty 200 page in place of the error
CaughtAsEmptyPage(r, queries) == [Reply(r, 200, "empty", <<>>, queries) EXCEPT !.threw = "query"]

\* threw is what the try block threw: a rejected query
Caught(r, queries) ==
    [ErrorReply(r, 500, FailureMessage[r.route], queries) EXCEPT !.threw = "query"]

\* a handler without the test of the returned row: 201 with no id
CreatedNoRow(r, queries) == [Reply(r, 201, "created", <<>>, queries) EXCEPT !.threw = "Error"]

\* if (!created) throw Error: the insert resolved to no row, and what is thrown
\* reaches the same catch block
CaughtNoRow(r, queries) == [Caught(r, queries) EXCEPT !.threw = "Error"]

\* res.status(200).json({ data })
DetailReply(r, id, queries) == Reply(r, 200, "detail", <<id>>, queries)

\* an empty page that echoes the requested page and limit
EmptyReplyEchoed(r, queries) ==
    [Reply(r, 200, "empty", <<>>, queries) EXCEPT !.page = Coerce(r.page, 1),
                                                  !.limit = Coerce(r.limit, 10)]

\* the page: { data: [], pagination: { page: 1, limit: 0, total: 0, totalPages: 0 } }
EmptyReply(r, queries) ==
    [Reply(r, 200, "empty", <<>>, queries) EXCEPT !.page = Num(1, 1)]

\* res.status(200).json({ data, pagination: { page, limit, total, totalPages } })
ListReply(r, l, data) ==
    [req |-> r, status |-> 200, kind |-> "list", data |-> data,
     page |-> l.currentPage, limit |-> l.limitPerPage, total |-> l.totalCount,
     totalPages |-> CeilDiv(l.totalCount, l.limitPerPage), error |-> "",
     queries |-> l.queries + 1, dirty |-> l.dirty, threw |-> ""]

\* .limit(limitPerPage).offset(offset) on the ordered rows.  What the query
\* builder and the store do with an operand that is not an integer lies outside
\* this repository: the query fails, or runs without that clause.
Paged(ord, l) ==
    Window(ord,
           IF IsInteger(l.limitPerPage) THEN IntValue(l.limitPerPage) ELSE Len(ord),
           IF IsInteger(l.offset) THEN IntValue(l.offset) ELSE 0)

\* a request is received when no other GET request is in flight; a step is taken
\* once the response of the step before has been delivered
Idle == pc = "idle" /\ resp = NoResp

\* the request in flight is at this stage of this route's handler
Stage(stage, route) == pc = stage /\ resp = NoResp /\ req.route = route

\* a handler sends its response and returns
Send(r) == /\ resp' = r
           /\ pc' = "idle"
           /\ req' = NoReq
           /\ loc' = NoLoc
           /\ UNCHANGED store

\* a handler awaits its next query
Await(stage, r, l) ==
    /\ pc' = stage
    /\ req' = r
    /\ loc' = l
    /\ resp' = NoResp
    /\ UNCHANGED store

\* the data query of a listing and the response: ok is whether the store
\* answered the query
DataQuery(rows, ok) ==
    \E ord \in Orderings(rows) :
        Send(IF ok THEN ListReply(req, loc, Ids(Paged(ord, loc)))
                   ELSE Caught(req, loc.queries + 1))

(***************************************************************************)
(* The handlers of routes/users.ts.  Each action is one step of a handler  *)
(* up to its next await; ok is whether the store answered the query the    *)
(* step issues (a rejected query throws, and the handler's catch responds  *)
(* 500).                                                                   *)
(***************************************************************************)
\* GET /users up to the count query
GetUsers(search, role, pl, ok) ==
    /\ Idle
    /\ LET r == Req("GET /users", "", search, role, Undefined, Undefined, Undefined, pl)
       IN  IF ok THEN Await("data", r, Locals(r, "", UsersCount(r), 1))
           ELSE Send(Caught(r, 1))

\* GET /users: the data query and the response
GetUsers_Data(ok) ==
    /\ Stage("data", "GET /users")
    /\ DataQuery(UsersRows(req), ok)

\* GET /users/:id
GetUser(id, ok) ==
    /\ Idle
    /\ LET r == Req("GET /users/:id", id, Undefined, NoRole, Undefined, Undefined, Undefined,
                    [page |-> Undefined, limit |-> Undefined])
       IN  Send(IF ~ok THEN Caught(r, 1)
                ELSE IF UserLookup(id) = {} THEN ErrorReply(r, 404, "User not found", 1)
                ELSE DetailReply(r, id, 1))

\* the user lookup of /users/:id/departments and /users/:id/subjects, with the
\* not-found and the other-role replies
UserPathLookup(route, id, pl, ok) ==
    /\ Idle
    /\ LET r == Req(route, id, Undefined, NoRole, Undefined, Undefined, Undefined, pl)
           found == UserLookup(id)
           role == (CHOOSE u \in found : TRUE).role
       IN  IF ~ok THEN Send(Caught(r, 1))
           ELSE IF found = {} THEN Send(ErrorReply(r, 404, "User not found", 1))
           ELSE IF role # "teacher" /\ role # "student" THEN Send(EmptyReply(r, 1))
           ELSE Await("count", r, Locals(r, role, 0, 1))

\* a count query between the lookup and the data query
CountQuery(route, count, ok) ==
    /\ Stage("count", route)
    /\ IF ok THEN Await("data", req, [loc EXCEPT !.totalCount = count,
                                                !.queries = loc.queries + 1])
       ELSE Send(Caught(req, loc.queries + 1))

\* GET /users/:id/departments
GetUserDepartments(id, pl, ok) == UserPathLookup("GET /users/:id/departments", id, pl, ok)

GetUserDepartments_Count(ok) ==
    CountQuery("GET /users/:id/departments", UserDepartmentsCount(loc.role, req.id), ok)

GetUserDepartments_Data(ok) ==
    /\ Stage("data", "GET /users/:id/departments")
    /\ DataQuery(UserDepartmentsRows(loc.role, req.id), ok)

\* GET /users/:id/subjects
GetUserSubjects(id, pl, ok) == UserPathLookup("GET /users/:id/subjects", id, pl, ok)

GetUserSubjects_Count(ok) ==
    CountQuery("GET /users/:id/subjects", UserSubjectsCount(loc.role, req.id), ok)

GetUserSubjects_Data(ok) ==
    /\ Stage("data", "GET /users/:id/subjects")
    /\ DataQuery(UserSubjectsRows(loc.role, req.id), ok)

(***************************************************************************)
(* The handlers of the subjects router.                                    *)
(***************************************************************************)
\* GET /subjects up to the count query
GetSubjects(search, department, pl, ok) ==
    /\ Idle
    /\ LET r == Req("GET /subjects", "", search, NoRole, department, Undefined, Undefined, pl)
       IN  IF ok THEN Await("data", r, Locals(r, "", SubjectsCount(r), 1))
           ELSE Send(Caught(r, 1))

GetSubjects_Data(ok) ==
    /\ Stage("data", "GET /subjects")
    /\ DataQuery(SubjectsRows(req), ok)

\* an insert that checks the unique code only, not the department reference
SubjectsInsertableUnreferenced(body) == body.code \notin {x.code : x \in subjects}

\* the insert of POST /subjects: departmentId is not null and references a
\* department, code and name are not null, code is unique
SubjectsInsertable(body) ==
    /\ body.departmentId \in {d.id : d \in departments}
    /\ body.code \notin {x.code : x \in subjects}

\* a write committed while a listing is between its count and its data query
Dirtied == IF pc = "data" THEN [loc EXCEPT !.dirty = TRUE] ELSE loc

\* a POST response leaves the GET request in flight where it stands
SendCreated(r) == resp' = r /\ pc' = pc /\ req' = req

\* rows inserted so far; the model stops inserting at MaxInserts
Inserted ==
    (Cardinality(subjects) - Cardinality(InitSubjects))
        + (Cardinality(classes) - Cardinality(InitClasses))

\* POST /subjects; outcome is what the store does with the insert: it returns
\* the new row, resolves to no row (nothing is stored), or rejects the statement
PostSubjects(departmentId, code, name, outcome) ==
    LET body == [departmentId |-> departmentId, code |-> code, name |-> name]
        r == [route |-> "POST /subjects", body |-> body]
    IN  IF outcome = "row" /\ SubjectsInsertable(body)
        THEN /\ resp = NoResp
             /\ Inserted < MaxInserts
             /\ subjects' = subjects \cup {Subject(subjectSeq, departmentId, code, name, now)}
             /\ subjectSeq' = subjectSeq + 1
             /\ now' = now + 1
             /\ loc' = Dirtied
             /\ SendCreated(Reply(r, 201, "created", <<subjectSeq>>, 1))
             /\ UNCHANGED <<departments, classes, enrollments, classSeq>>
        ELSE /\ resp = NoResp
             /\ SendCreated(IF outcome = "none" /\ SubjectsInsertable(body)
                            THEN CaughtNoRow(r, 1) ELSE Caught(r, 1))
             /\ UNCHANGED <<store, loc>>

\* delete from departments where id = id, a statement on the store: the
\* reference of subjects.departmentId is declared onDelete restrict, so the
\* statement is rejected while a subject references the department
DeleteDepartment(id) ==
    LET r == [route |-> "delete departments", id |-> id]
        referenced == \E x \in subjects : x.departmentId = id
    IN  /\ resp = NoResp
        /\ \E d \in departments : d.id = id
        /\ IF referenced
           THEN /\ resp' = Reply(r, 0, "rejected", <<>>, 1)
                /\ UNCHANGED <<store, loc>>
           ELSE /\ departments' = {d \in departments : d.id # id}
                /\ loc' = Dirtied
                /\ resp' = Reply(r, 0, "deleted", <<>>, 1)
                /\ UNCHANGED <<subjects, classes, enrollments, subjectSeq, classSeq, now>>
        /\ UNCHANGED <<pc, req>>

\* a path id: Number(req.params.id)
NoPage == [page |-> Undefined, limit |-> Undefined]

\* GET /subjects/:id up to the subject query
GetSubject(id, ok) ==
    /\ Idle
    /\ LET r == Req("GET /subjects/:id", id, Undefined, NoRole, Undefined, Undefined, Undefined, NoPage)
           subjectId == ToNumber(id)
       IN  IF ~IsFinite(subjectId) THEN Send(ErrorReply(r, 400, "Invalid subject id", 0))
           ELSE IF ~ok THEN Send(Caught(r, 1))
           ELSE IF SubjectLookup(subjectId) = {} THEN Send(ErrorReply(r, 404, "Subject not found", 1))
           ELSE Await("totals", r, [NoLoc EXCEPT !.queries = 1])

\* GET /subjects/:id: the classes count and the response
GetSubject_Totals(ok) ==
    /\ Stage("totals", "GET /subjects/:id")
    /\ Send(IF ok THEN DetailReply(req, IntValue(ToNumber(req.id)), 2)
            ELSE Caught(req, 2))

\* GET /subjects/:id/classes up to the count query
GetSubjectClasses(id, pl, ok) ==
    /\ Idle
    /\ LET r == Req("GET /subjects/:id/classes", id, Undefined, NoRole, Undefined, Undefined, Undefined, pl)
           subjectId == ToNumber(id)
       IN  IF ~IsFinite(subjectId) THEN Send(ErrorReply(r, 400, "Invalid subject id", 0))
           ELSE IF ~ok THEN Send(Caught(r, 1))
           ELSE Await("data", r, Locals(r, "", SubjectClassesCount(subjectId), 1))

GetSubjectClasses_Data(ok) ==
    /\ Stage("data", "GET /subjects/:id/classes")
    /\ DataQuery(SubjectClassesRows(ToNumber(req.id)), ok)

\* GET /subjects/:id/users up to the count query
GetSubjectUsers(id, role, pl, ok) ==
    /\ Idle
    /\ LET r == Req("GET /subjects/:id/users", id, Undefined, role, Undefined, Undefined, Undefined, pl)
           subjectId == ToNumber(id)
       IN  IF ~IsFinite(subjectId) THEN Send(ErrorReply(r, 400, "Invalid subject id", 0))
           ELSE IF ~ValidRole(role) THEN Send(ErrorReply(r, 400, "Invalid role", 0))
           ELSE IF ~ok THEN Send(Caught(r, 1))
           ELSE Await("data", r, Locals(r, role.s, SubjectUsersCount(role.s, subjectId), 1))

GetSubjectUsers_Data(ok) ==
    /\ Stage("data", "GET /subjects/:id/users")
    /\ DataQuery(SubjectUsersRows(loc.role, ToNumber(req.id)), ok)

(***************************************************************************)
(* The handlers of routes/classes.ts.                                      *)
(***************************************************************************)
\* GET /classes up to the count query
GetClasses(search, subject, teacher, pl, ok) ==
    /\ Idle
    /\ LET r == Req("GET /classes", "", search, NoRole, Undefined, subject, teacher, pl)
       IN  IF ok THEN Await("data", r, Locals(r, "", ClassesCount(r), 1))
           ELSE Send(Caught(r, 1))

GetClasses_Data(ok) ==
    /\ Stage("data", "GET /classes")
    /\ DataQuery(ClassesRows(req), ok)

\* the constraints of table classes: the subject and the teacher it references
\* exist and its invite code is unique
ClassesInsertable(row) ==
    /\ row.subjectId \in {x.id : x \in subjects}
    /\ row.teacherId \in {u.id : u \in Users}
    /\ row.inviteCode \notin {c.inviteCode : c \in classes}

\* POST /classes; random is the value Math.random() returns, outcome what the
\* store does with the insert
PostClasses(subjectId, teacherId, name, random, outcome) ==
    LET body == [subjectId |-> subjectId, teacherId |-> teacherId, name |-> name]
        r == [route |-> "POST /classes", body |-> body]
        row == Class(classSeq, subjectId, teacherId, InviteCode(random), name, now)
    IN  IF outcome = "row" /\ ClassesInsertable(row)
        THEN /\ resp = NoResp
             /\ Inserted < MaxInserts
             /\ classes' = classes \cup {row}
             /\ classSeq' = classSeq + 1
             /\ now' = now + 1
             /\ loc' = Dirtied
             /\ SendCreated(Reply(r, 201, "created", <<classSeq>>, 1))
             /\ UNCHANGED <<departments, subjects, enrollments, subjectSeq>>
        ELSE /\ resp = NoResp
             /\ SendCreated(IF outcome = "none" /\ ClassesInsertable(row)
                            THEN CaughtNoRow(r, 1) ELSE Caught(r, 1))
             /\ UNCHANGED <<store, loc>>

\* GET /classes/:id
GetClass(id, ok) ==
    /\ Idle
    /\ LET r == Req("GET /classes/:id", id, Undefined, NoRole, Undefined, Undefined, Undefined, NoPage)
           classId == ToNumber(id)
       IN  Send(IF ~IsFinite(classId) THEN ErrorReply(r, 400, "Invalid class id", 0)
                ELSE IF ~ok THEN Caught(r, 1)
                ELSE IF ClassLookup(classId) = {} THEN ErrorReply(r, 404, "Class not found", 1)
                ELSE DetailReply(r, IntValue(classId), 1))

\* GET /classes/:id/users up to the count query
GetClassUsers(id, role, pl, ok) ==
    /\ Idle
    /\ LET r == Req("GET /classes/:id/users", id, Undefined, role, Undefined, Undefined, Undefined, pl)
           classId == ToNumber(id)
       IN  IF ~IsFinite(classId) THEN Send(ErrorReply(r, 400, "Invalid class id", 0))
           ELSE IF ~ValidRole(role) THEN Send(ErrorReply(r, 400, "Invalid role", 0))
           ELSE IF ~ok THEN Send(Caught(r, 1))
           ELSE Await("data", r, Locals(r, role.s, ClassUsersCount(role.s, classId), 1))

GetClassUsers_Data(ok) ==
    /\ Stage("data", "GET /classes/:id/users")
    /\ DataQuery(ClassUsersRows(loc.role, ToNumber(req.id)), ok)

\* the client takes the response
Deliver ==
    /\ resp # NoResp
    /\ resp' = NoResp
    /\ UNCHANGED <<store, pc, req, loc>>

(***************************************************************************)
(* The specification.                                                      *)
(***************************************************************************)
\* the inputs the requests are drawn from
SearchTerms == {Undefined, Str(<<>>), Str(<<"T">>), Str(<<"x">>), Str(<<"_">>)}
UserRoleFilters == {NoRole, Str("teacher"), Str("boss")}
SubjectSearchTerms == {Undefined, Str(<<"A">>), Str(<<"1">>)}
DepartmentTerms == {Undefined, Str(<<"s", "c">>), Str(<<"z">>)}
ClassSearchTerms == {Undefined, Str(<<"a">>), Str(<<"K", "7">>)}
SubjectTerms == {Undefined, Str(<<"m", "a">>)}
TeacherTerms == {Undefined, Str(<<"t", "o">>)}
\* Math.random() values by their base-36 digits: 0, 0.5, and two longer expansions
Randoms == {<<>>, <<18>>, <<10, 35, 3, 0, 7, 21, 9, 1, 30>>}
\* what the store does with an insert
InsertOutcomes == {"row", "none", "rejected"}

Init ==
    /\ departments = Departments
    /\ subjects = InitSubjects
    /\ classes = InitClasses
    /\ enrollments \in InitEnrollments
    /\ subjectSeq = Cardinality(InitSubjects) + 1
    /\ classSeq = Cardinality(InitClasses) + 1
    /\ now = 8
    /\ Idle
    /\ req = NoReq
    /\ loc = NoLoc
    /\ resp = NoResp

Next ==
    \/ \E s \in SearchTerms, r \in UserRoleFilters, pl \in PageLimits, ok \in BOOLEAN :
          GetUsers(s, r, pl, ok)
    \/ \E ok \in BOOLEAN : GetUsers_Data(ok)
    \/ \E id \in UserIdParams, ok \in BOOLEAN : GetUser(id, ok)
    \/ \E id \in UserIdParams, pl \in PageLimits, ok \in BOOLEAN : GetUserDepartments(id, pl, ok)
    \/ \E ok \in BOOLEAN : GetUserDepartments_Count(ok)
    \/ \E ok \in BOOLEAN : GetUserDepartments_Data(ok)
    \/ \E id \in UserIdParams, pl \in PageLimits, ok \in BOOLEAN : GetUserSubjects(id, pl, ok)
    \/ \E ok \in BOOLEAN : GetUserSubjects_Count(ok)
    \/ \E ok \in BOOLEAN : GetUserSubjects_Data(ok)
    \/ \E s \in SubjectSearchTerms, d \in DepartmentTerms, pl \in PageLimits, ok \in BOOLEAN :
          GetSubjects(s, d, pl, ok)
    \/ \E ok \in BOOLEAN : GetSubjects_Data(ok)
    \/ \E d \in {3, 99}, c \in {<<"n", "1">>}, o \in InsertOutcomes :
          PostSubjects(d, c, <<"N", "e">>, o)
    \/ \E id \in {1, 3} : DeleteDepartment(id)
    \/ \E id \in SubjectIdParams, ok \in BOOLEAN : GetSubject(id, ok)
    \/ \E ok \in BOOLEAN : GetSubject_Totals(ok)
    \/ \E id \in SubjectRootParams, pl \in PageLimits, ok \in BOOLEAN : GetSubjectClasses(id, pl, ok)
    \/ \E ok \in BOOLEAN : GetSubjectClasses_Data(ok)
    \/ \E id \in SubjectRootParams, r \in RoleParams, pl \in PageLimits, ok \in BOOLEAN :
          GetSubjectUsers(id, r, pl, ok)
    \/ \E ok \in BOOLEAN : GetSubjectUsers_Data(ok)
    \/ \E s \in ClassSearchTerms, sj \in SubjectTerms, t \in TeacherTerms,
          pl \in PageLimits, ok \in BOOLEAN : GetClasses(s, sj, t, pl, ok)
    \/ \E ok \in BOOLEAN : GetClasses_Data(ok)
    \/ \E sj \in {1, 99}, t \in {"t1"}, rnd \in Randoms, o \in InsertOutcomes :
          PostClasses(sj, t, <<"N", "w">>, rnd, o)
    \/ \E id \in ClassIdParams, ok \in BOOLEAN : GetClass(id, ok)
    \/ \E id \in ClassRootParams, r \in RoleParams, pl \in PageLimits, ok \in BOOLEAN :
          GetClassUsers(id, r, pl, ok)
    \/ \E ok \in BOOLEAN : GetClassUsers_Data(ok)
    \/ Deliver

Spec == Init /\ [][Next]_vars

(***************************************************************************)
(* The claims.                                                             *)
(***************************************************************************)
UserNested == {"GET /users/:id/departments", "GET /users/:id/subjects"}
SubjectNested == {"GET /subjects/:id/classes", "GET /subjects/:id/users"}
ClassNested == {"GET /classes/:id/users"}
TopLevel == {"GET /users", "GET /subjects", "GET /classes"}

\* the id in the path of a nested listing identifies a stored root entity
RootExists(r) ==
    CASE r.route \in UserNested -> \E u \in Users : u.id = r.id
      [] r.route \in SubjectNested -> \E x \in subjects : EqNumber(x.id, ToNumber(r.id))
      [] r.route \in ClassNested -> \E c \in classes : EqNumber(c.id, ToNumber(r.id))
      [] OTHER -> TRUE

\* an integer that is at least 1
AtLeastOne(x) == IsInteger(x) /\ x.n >= x.d

\* C1: a nested listing whose path id identifies no stored root entity is
\* never answered with a 200 page (the claim: it is answered 404)
C1_MissingRootNeverListed ==
    (resp.status = 200 /\ resp.req.route \in UserNested \cup SubjectNested \cup ClassNested)
        => RootExists(resp.req)

\* C2: the page and the limit a listing uses for its window and echoes in the
\* pagination envelope are integers, each at least 1, whatever the query held
C2_PageAndLimitAreIntegers ==
    /\ pc \in {"count", "data"} =>
          AtLeastOne(loc.currentPage) /\ AtLeastOne(loc.limitPerPage)
    /\ resp.kind = "list" => AtLeastOne(resp.page) /\ AtLeastOne(resp.limit)

\* C3: in a list response with a valid page and limit, totalPages is
\* ceil(total / limit), that is the least integer n with n * limit >= total, and
\* data holds at most limit items
C3_TotalPagesAndPageSize ==
    (resp.kind = "list" /\ AtLeastOne(resp.page) /\ AtLeastOne(resp.limit)) =>
        /\ IsInteger(resp.totalPages)
        /\ IntValue(resp.totalPages) * IntValue(resp.limit) >= resp.total
        /\ (IntValue(resp.totalPages) - 1) * IntValue(resp.limit) < resp.total
        /\ Len(resp.data) <= IntValue(resp.limit)

\* a full page of a listing whose total is no multiple of the limit
C3_Witness ==
    /\ resp.kind = "list" /\ AtLeastOne(resp.page) /\ AtLeastOne(resp.limit)
    /\ IntValue(resp.limit) >= 2
    /\ resp.total > IntValue(resp.limit)
    /\ resp.total % IntValue(resp.limit) # 0
    /\ Len(resp.data) = IntValue(resp.limit)

\* some filter of a top-level listing is set
Filtered(r) ==
    \/ Truthy(r.search) \/ RoleTruthy(r.role)
    \/ Truthy(r.department) \/ Truthy(r.subject) \/ Truthy(r.teacher)

\* C4: on GET /users, GET /subjects and GET /classes, with no write between
\* the count query and the data query, the first page of a limit that is at
\* least the reported total (limit = total is the claim's case) holds exactly
\* total items, whatever the filters
C4_CountEqualsFirstPage ==
    (/\ resp.kind = "list" /\ resp.req.route \in TopLevel /\ ~resp.dirty
     /\ resp.page = Num(1, 1) /\ AtLeastOne(resp.limit)
     /\ IntValue(resp.limit) >= resp.total)
        => Len(resp.data) = resp.total

\* a filtered listing of two or more rows asked for with page 1 and limit = total
C4_Witness ==
    /\ resp.kind = "list" /\ resp.req.route \in TopLevel /\ ~resp.dirty
    /\ Filtered(resp.req)
    /\ resp.page = Num(1, 1) /\ AtLeastOne(resp.limit)
    /\ IntValue(resp.limit) = resp.total
    /\ resp.total >= 2
    /\ Len(resp.data) = resp.total

\* the role stored for a user
StoredRole(userId) == (CHOOSE u \in Users : u.id = userId).role

\* the class is one the user teaches (role teacher) or is enrolled in (role student)
OnPath(role, userId, c) ==
    IF role = "teacher" THEN c.teacherId = userId
    ELSE \E e \in enrollments : e.classId = c.id /\ e.studentId = userId

\* the subjects with at least one class on the user's path
PathSubjects(role, userId) ==
    {x.id : x \in {x \in subjects :
                     \E c \in classes : c.subjectId = x.id /\ OnPath(role, userId, c)}}

\* the departments with at least one subject on the user's path
PathDepartments(role, userId) ==
    {d.id : d \in {d \in departments :
                     \E x \in subjects : /\ x.departmentId = d.id
                                         /\ x.id \in PathSubjects(role, userId)}}

\* no value occurs twice in the sequence
NoDuplicates(seq) == \A i, k \in DOMAIN seq : seq[i] = seq[k] => i = k

\* a list response of the route, with no write between its count and data queries
CleanList(route) == resp.kind = "list" /\ resp.req.route = route /\ ~resp.dirty

\* the response is the first page and its limit covers the reported total
WholeResult ==
    resp.page = Num(1, 1) /\ AtLeastOne(resp.limit) /\ IntValue(resp.limit) >= resp.total

\* C5: GET /users/:id/departments of a teacher or a student, with no write
\* between its queries: total is the number of distinct departments on the
\* role's join path, however many joined rows lead to each, no page holds a
\* department twice or one off the path, and a page that covers total holds
\* exactly those departments
C5_TotalIsDistinctDepartments ==
    CleanList("GET /users/:id/departments") =>
        LET reached == PathDepartments(StoredRole(resp.req.id), resp.req.id)
        IN  /\ resp.total = Cardinality(reached)
            /\ NoDuplicates(resp.data)
            /\ Range(resp.data) \subseteq reached
            /\ WholeResult => Range(resp.data) = reached

\* teacher t1 teaches two classes in each of three subjects of one department:
\* six joined rows, total 1, one item
C5_Witness ==
    /\ CleanList("GET /users/:id/departments")
    /\ resp.req.id = "t1"
    /\ Cardinality({j \in DepartmentsJoin("teacher") : PathWhere("teacher", "t1", j)}) >= 6
    /\ resp.total = 1
    /\ resp.data = <<1>>

\* C6: GET /users/:id/subjects takes the join path of the user's stored role:
\* every subject it returns has a class the user teaches (teacher) or is
\* enrolled in (student), no subject is returned twice, and a page that covers
\* total holds exactly those subjects
C6_SubjectsByRolePath ==
    CleanList("GET /users/:id/subjects") =>
        LET reached == PathSubjects(StoredRole(resp.req.id), resp.req.id)
        IN  /\ NoDuplicates(resp.data)
            /\ Range(resp.data) \subseteq reached
            /\ WholeResult => Range(resp.data) = reached

\* student s1 is enrolled in two classes of subject 1 and teaches a class of
\* subject 4: subject 1 is returned once and subject 4 is not
C6_Witness ==
    /\ CleanList("GET /users/:id/subjects")
    /\ resp.req.id = "s1" /\ StoredRole("s1") = "student"
    /\ Cardinality({c \in classes : c.subjectId = 1 /\ OnPath("student", "s1", c)}) >= 2
    /\ \E c \in classes : c.subjectId = 4 /\ c.teacherId = "s1" /\ ~OnPath("student", "s1", c)
    /\ WholeResult
    /\ Cardinality({i \in DOMAIN resp.data : resp.data[i] = 1}) = 1
    /\ 4 \notin Range(resp.data)

\* the class a POST /classes response reports as created
CreatedClass == CHOOSE c \in classes : c.id = resp.data[1]

\* C7: a class created through POST /classes (201 with the new id) is stored
\* with an invite code of exactly 7 base-36 characters and an empty schedule
\* list, whatever the random source returned
C7_InviteCodeHasSevenCharacters ==
    (resp.status = 201 /\ resp.req.route = "POST /classes") =>
        /\ \E c \in classes : c.id = resp.data[1]
        /\ Len(CreatedClass.inviteCode) = 7
        /\ Range(CreatedClass.inviteCode) \subseteq Range(Base36)
        /\ CreatedClass.schedules = <<>>

\* the rows in the store now that match a listing request
RowsOf(r) ==
    CASE r.route = "GET /users" -> UsersRows(r)
      [] r.route = "GET /users/:id/departments" -> UserDepartmentsRows(StoredRole(r.id), r.id)
      [] r.route = "GET /users/:id/subjects" -> UserSubjectsRows(StoredRole(r.id), r.id)
      [] r.route = "GET /subjects" -> SubjectsRows(r)
      [] r.route = "GET /subjects/:id/classes" -> SubjectClassesRows(ToNumber(r.id))
      [] r.route = "GET /subjects/:id/users" -> SubjectUsersRows(r.role.s, ToNumber(r.id))
      [] r.route = "GET /classes" -> ClassesRows(r)
      [] OTHER -> ClassUsersRows(r.role.s, ToNumber(r.id))

\* C8: a listing issues its count query first and its data query second, with
\* no transaction around the pair: the data of a list response is taken from
\* the rows stored when the data query ran, and its total differs from the
\* number of those rows only when a write was committed between the two queries
C8_TotalDisagreesOnlyAfterWrite ==
    /\ pc = "data" => loc.queries >= 1
    /\ resp.kind = "list" =>
          /\ resp.queries = 2 \/ resp.queries = 3
          /\ Range(resp.data) \subseteq {x.id : x \in RowsOf(resp.req)}
          /\ resp.total # Cardinality(RowsOf(resp.req)) => resp.dirty

\* a class was inserted between the two queries of a listing: the page holds
\* more items than the total it reports
C8_Witness ==
    /\ resp.kind = "list" /\ resp.dirty
    /\ AtLeastOne(resp.limit)
    /\ resp.total < Cardinality(RowsOf(resp.req))
    /\ Len(resp.data) > resp.total

\* the routes that return one subject or one class
Details == {"GET /subjects/:id", "GET /classes/:id"}

\* the path id converts to NaN or to an infinity
Malformed(id) == ToNumber(id).t \in {"nan", "inf", "ninf"}

\* a row of the route's root table has the path id
Stored(r) ==
    IF r.route \in {"GET /subjects/:id", "GET /subjects/:id/classes", "GET /subjects/:id/users"}
    THEN \E x \in subjects : Num(x.id, 1) = ToNumber(r.id)
    ELSE \E c \in classes : Num(c.id, 1) = ToNumber(r.id)

\* C9: on GET /subjects/:id and GET /classes/:id an id that is no finite number
\* is answered 400 and no query is issued; a finite id that matches no stored
\* row is answered 404 once the store has answered (500 if the store fails);
\* 200 is sent only when the row exists
C9_DetailIdOutcomes ==
    resp.req.route \in Details =>
        /\ Malformed(resp.req.id) <=> resp.status = 400
        /\ resp.status = 400 => resp.queries = 0
        /\ (~Malformed(resp.req.id) /\ ~Stored(resp.req)) => resp.status \in {404, 500}
        /\ resp.status = 404 => ~Stored(resp.req)
        /\ resp.status = 200 => Stored(resp.req)
        /\ resp.status \in {200, 400, 404, 500}

\* a numeric id of no stored row answered 404 after one query
C9_Witness ==
    /\ resp.req.route \in Details
    /\ ~Malformed(resp.req.id) /\ ~Stored(resp.req)
    /\ resp.status = 404 /\ resp.queries = 1

\* the routes that list the users of a subject or a class by role
RoleListings == {"GET /subjects/:id/users", "GET /classes/:id/users"}

InvalidId(route) ==
    IF route = "GET /subjects/:id/users" THEN "Invalid subject id" ELSE "Invalid class id"

\* C10: on GET /subjects/:id/users and GET /classes/:id/users a role other
\* than exactly "teacher" or "student", an absent role included, is answered 400
\* with no query issued; the id is checked first, so that a malformed id with an
\* invalid role reports the invalid id
C10_RoleIsTeacherOrStudent ==
    resp.req.route \in RoleListings =>
        LET badRole == resp.req.role \notin {Str("teacher"), Str("student")}
        IN  /\ Malformed(resp.req.id) =>
                  resp.status = 400 /\ resp.error = InvalidId(resp.req.route)
            /\ (~Malformed(resp.req.id) /\ badRole) =>
                  resp.status = 400 /\ resp.error = "Invalid role"
            /\ resp.status = 400 <=> (Malformed(resp.req.id) \/ badRole)
            /\ resp.status = 400 => resp.queries = 0

\* a malformed id together with an invalid role: the invalid id is reported
C10_Witness ==
    /\ resp.req.route \in RoleListings
    /\ Malformed(resp.req.id)
    /\ resp.req.role \notin {Str("teacher"), Str("student")}
    /\ resp.status = 400 /\ resp.error = InvalidId(resp.req.route) /\ resp.queries = 0

\* the user of the path is stored with a role other than teacher and student
OtherRole(userId) ==
    /\ \E u \in Users : u.id = userId
    /\ StoredRole(userId) \notin {"teacher", "student"}

\* C11: for a stored user whose role is neither teacher nor student,
\* GET /users/:id/departments and GET /users/:id/subjects answer 200 with no
\* item and pagination page 1, limit 0, total 0, totalPages 0, whatever page and
\* limit were asked for, and issue no query after the user lookup (the lookup
\* failing is the one other outcome, 500)
C11_OtherRoleGetsEmptyPage ==
    (resp.req.route \in UserNested /\ OtherRole(resp.req.id)) =>
        /\ resp.queries = 1
        /\ resp.status \in {200, 500}
        /\ resp.status = 200 =>
              /\ resp.data = <<>>
              /\ resp.page = Num(1, 1) /\ resp.limit = Num(0, 1)
              /\ resp.total = 0 /\ resp.totalPages = Num(0, 1)

\* the admin a1 asks for page 2 with limit 2 and gets page 1, limit 0
C11_Witness ==
    /\ resp.req.route \in UserNested /\ OtherRole(resp.req.id)
    /\ resp.req.page = Str(<<"2">>) /\ resp.req.limit = Str(<<"2">>)
    /\ resp.status = 200 /\ resp.queries = 1
    /\ resp.page = Num(1, 1) /\ resp.limit = Num(0, 1)

\* the routes that insert
Creations == {"POST /subjects", "POST /classes"}

\* the row a 201 response reports is stored with the fields of the request body
CreatedRowStored ==
    /\ Len(resp.data) = 1
    /\ IF resp.req.route = "POST /subjects"
       THEN \E x \in subjects : /\ x.id = resp.data[1]
                                /\ x.departmentId = resp.req.body.departmentId
                                /\ x.code = resp.req.body.code
                                /\ x.name = resp.req.body.name
       ELSE \E c \in classes : /\ c.id = resp.data[1]
                               /\ c.subjectId = resp.req.body.subjectId
                               /\ c.teacherId = resp.req.body.teacherId
                               /\ c.name = resp.req.body.name

\* C13: on POST /subjects and POST /classes an insert that returns no row is a
\* creation failure: the response is 500 with the route's error message, and
\* 201 is sent only with the id of a row that was stored
C13_NoRowIsCreationFailure ==
    resp.req.route \in Creations =>
        /\ resp.threw = "Error" =>
              /\ resp.status = 500 /\ resp.kind = "error" /\ resp.data = <<>>
              /\ resp.error = (IF resp.req.route = "POST /subjects"
                               THEN "Failed to create subject" ELSE "Failed to create class")
        /\ resp.status = 201 => resp.threw = "" /\ CreatedRowStored
        /\ resp.status \in {201, 500}

\* an insert of acceptable values resolved to no row and the request got 500
C13_Witness ==
    /\ resp.req.route \in Creations
    /\ resp.threw = "Error"
    /\ resp.status = 500
    /\ Inserted = 0

\* C12: in every handler a store query that fails, at whichever step (lookup,
\* count query, data query, insert), ends the request with 500 and the route's
\* fixed error message: no data is returned, no further query is issued, and no
\* success status is sent for the request; 500 is sent in no other case
C12_FailureIsAnswered500 ==
    /\ resp.threw # "" =>
          /\ resp.status = 500 /\ resp.kind = "error" /\ resp.data = <<>>
          /\ resp.error = FailureMessage[resp.req.route]
          /\ resp.queries \in 1..3
          /\ resp.req.route \notin Creations => (pc = "idle" /\ req = NoReq)
    /\ resp.status = 500 => resp.threw # ""
    /\ resp.status \in {200, 201} => resp.threw = "" /\ resp.error = ""

\* the data query of GET /users/:id/departments, the third query of the
\* request, failed after the lookup and the count query had succeeded
C12_Witness ==
    /\ resp.req.route = "GET /users/:id/departments"
    /\ resp.threw = "query" /\ resp.queries = 3
    /\ resp.status = 500 /\ resp.error = "Failed to fetch user departments"
    /\ resp.data = <<>>
    /\ pc = "idle"

\* term is a case-insensitive substring of text
Contains(text, term) ==
    \E i \in 0..(Len(text) - Len(term)) :
        \A k \in 1..Len(term) : Lower(text[i + k]) = Lower(term[k])

\* a supplied filter term is a case-insensitive substring of one of the fields
Satisfied(v, fields) == v.def => \E f \in fields : Contains(f, v.s)

\* the ids of the stored rows that satisfy every supplied filter of a
\* top-level listing
Matching(r) ==
    CASE r.route = "GET /users" ->
           {u.id : u \in {u \in Users : /\ Satisfied(r.search, {u.name, u.email})
                                       /\ (r.role.def => u.role = r.role.s)}}
      [] r.route = "GET /subjects" ->
           {x.id : x \in {x \in subjects :
              /\ Satisfied(r.search, {x.name, x.code})
              /\ Satisfied(r.department, {d.name : d \in {d \in departments : d.id = x.departmentId}})}}
      [] OTHER ->
           {c.id : c \in {c \in classes :
              /\ Satisfied(r.search, {c.name, c.inviteCode})
              /\ Satisfied(r.subject, {x.name : x \in {x \in subjects : x.id = c.subjectId}})
              /\ Satisfied(r.teacher, {u.name : u \in {u \in Users : u.id = c.teacherId}})}}

\* C14: a top-level listing matches exactly the rows that satisfy every
\* supplied filter, the search term being a case-insensitive substring of one
\* of its two fields; with no filter every row matches
C14_MatchesAreSubstringMatches ==
    (resp.kind = "list" /\ resp.req.route \in TopLevel /\ ~resp.dirty) =>
        /\ resp.total = Cardinality(Matching(resp.req))
        /\ Range(resp.data) \subseteq Matching(resp.req)
        /\ WholeResult => Range(resp.data) = Matching(resp.req)

\* some stored subject references the department
Referenced(departmentId) == \E x \in subjects : x.departmentId = departmentId

\* C15: every stored subject references a stored department, whatever was
\* done: POST /subjects naming no stored department answers 500 and stores no
\* subject, and the deletion of a department that a subject references is
\* rejected, the department and the subject staying as they are
C15_SubjectDepartmentExists ==
    /\ \A x \in subjects : \E d \in departments : d.id = x.departmentId
    /\ (/\ resp.req.route = "POST /subjects"
        /\ resp.req.body.departmentId \notin {d.id : d \in departments}) =>
          resp.status = 500 /\ ~Referenced(resp.req.body.departmentId)
    /\ resp.req.route = "delete departments" =>
          /\ resp.kind = "rejected" <=> Referenced(resp.req.id)
          /\ resp.kind = "rejected" => \E d \in departments : d.id = resp.req.id
          /\ resp.kind = "deleted" => ~\E d \in departments : d.id = resp.req.id

\* department 3 got its first subject through POST /subjects, and its deletion
\* is rejected
C15_Witness ==
    /\ resp.req.route = "delete departments" /\ resp.req.id = 3
    /\ resp.kind = "rejected"
    /\ \E x \in subjects \ InitSubjects : x.departmentId = 3
    /\ \E d \in departments : d.id = 3

\* the rows have pairwise distinct creation times
DistinctTimes(rows) == \A x, y \in rows : x.createdAt = y.createdAt => x = y

\* the position of a row in the rows ordered newest first, counted from 0
Position(rows, x) == Cardinality({y \in rows : y.createdAt > x.createdAt})

\* C16: in every listing with no write between its queries, an integer page p
\* and limit L, and matching rows of pairwise distinct creation times, the page
\* holds exactly the rows at positions (p-1)*L to p*L-1 of the matching rows
\* ordered newest first, in that order; a page beyond totalPages is empty
C16_PageIsWindowNewestFirst ==
    (/\ resp.kind = "list" /\ ~resp.dirty
     /\ AtLeastOne(resp.page) /\ AtLeastOne(resp.limit)
     /\ DistinctTimes(RowsOf(resp.req))) =>
        LET rows == RowsOf(resp.req)
            first == (IntValue(resp.page) - 1) * IntValue(resp.limit)
            rest == Cardinality(rows) - first
        IN  /\ Len(resp.data) = (IF rest < 0 THEN 0 ELSE Min(IntValue(resp.limit), rest))
            /\ \A i \in DOMAIN resp.data :
                  \E x \in rows : x.id = resp.data[i] /\ Position(rows, x) = first + i - 1
            /\ IntValue(resp.page) > IntValue(resp.totalPages) => resp.data = <<>>

\* page 2 with limit 2 of five or more rows: the third and the fourth newest
C16_Witness ==
    /\ resp.kind = "list" /\ ~resp.dirty
    /\ resp.page = Num(2, 1) /\ resp.limit = Num(2, 1)
    /\ DistinctTimes(RowsOf(resp.req))
    /\ Cardinality(RowsOf(resp.req)) >= 5
    /\ Len(resp.data) = 2
    /\ \E x, y \in RowsOf(resp.req) :
          /\ x.id = resp.data[1] /\ y.id = resp.data[2]
          /\ x.createdAt > y.createdAt

\* the classes of the root of a role listing: the class, or the subject's classes
RootClasses(r) ==
    IF r.route = "GET /classes/:id/users"
    THEN {c \in classes : Num(c.id, 1) = ToNumber(r.id)}
    ELSE {c \in classes : Num(c.subjectId, 1) = ToNumber(r.id)}

\* the user is linked to one of the classes by the path of the role: as its
\* teacher, or by an enrollment
LinkedBy(role, u, cs) ==
    IF role = "teacher" THEN \E c \in cs : c.teacherId = u.id
    ELSE \E c \in cs : \E e \in enrollments : e.classId = c.id /\ e.studentId = u.id

\* the ids of the users of the requested role that are linked to the root
LinkedUsers(r) ==
    {u.id : u \in {u \in Users : u.role = r.role.s /\ LinkedBy(r.role.s, u, RootClasses(r))}}

\* C17: GET /classes/:id/users and GET /subjects/:id/users return, each once,
\* exactly the users whose stored role is the requested role and who are linked
\* to the root by that role's path (teacher of the class or of a class of the
\* subject; enrolled in the class or in a class of the subject); a linked user
\* of another role is not returned, and total counts the same users
C17_UsersOfRoleLinkedToRoot ==
    (resp.kind = "list" /\ resp.req.route \in RoleListings /\ ~resp.dirty) =>
        /\ resp.total = Cardinality(LinkedUsers(resp.req))
        /\ NoDuplicates(resp.data)
        /\ Range(resp.data) \subseteq LinkedUsers(resp.req)
        /\ WholeResult => Range(resp.data) = LinkedUsers(resp.req)

\* the students of class 7: the teacher t1 is enrolled in it too and is left out
C17_Witness ==
    /\ resp.kind = "list" /\ resp.req.route = "GET /classes/:id/users" /\ ~resp.dirty
    /\ resp.req.id = <<"7">> /\ resp.req.role = Str("student")
    /\ Enrollment("t1", 7) \in enrollments /\ StoredRole("t1") = "teacher"
    /\ WholeResult
    /\ resp.data = <<"s2">> /\ resp.total = 1

====
